---- MODULE Spec2Model ----
(***************************************************************************)
(* Nested Spirograph (src/main.cpp): the kinematics function               *)
(* nestedPenAndCenters_perStageSpeed and the frame loop of main() with its *)
(* key handlers and the adaptive tracer.                                   *)
(*                                                                         *)
(* Numbers.  The program computes in float; the model computes in fixed    *)
(* point, with the same formulas in the same order:                        *)
(*   lengths and positions   tenths of a pixel                             *)
(*   time                    milliseconds                                  *)
(*   angles                  milliradians                                  *)
(*   speeds                  tenths of a radian per second                 *)
(*   sin, cos                thousandths (TrigOne = 1.0)                   *)
(* sin and cos are the rational approximation 16p/(5 pi^2 - 4p),           *)
(* p = x(pi - x), extended by symmetry; hypot is the integer square root.  *)
(*                                                                         *)
(* The window, the HUD and help texts, the shapes and the PNG file are     *)
(* outputs computed from the state below and are not part of it; a colour  *)
(* hsv(h, 1, 1) is kept as its hue h.                                      *)
(***************************************************************************)
EXTENDS Integers, Sequences, FiniteSets, TLC

VARIABLES
    R,              \* float R: base circle radius
    chain,          \* std::vector<Stage> chain
    tracing,        \* bool tracing
    showMechanism,  \* bool showMechanism
    helpVisible,    \* help.visible
    sel,            \* int sel, 0-based index of the selected stage
    windowOpen,     \* window.isOpen()
    pngN,           \* static int n of the PNG handler
    t,              \* float t
    dt,             \* float dt of the current frame
    centers,        \* std::vector<sf::Vector2f> centers of the current frame
    penLocal,       \* sf::Vector2f penLocal of the current frame
    discPos,        \* chain[i].disc position
    haveLast,       \* bool haveLast
    lastPen,        \* sf::Vector2f lastPen
    lastT,          \* float lastT
    pathLen,        \* float pathLen
    surface,        \* content of traceRT: the segments drawn since the last clear
    currPen,        \* const sf::Vector2f currPen of the trace block
    steps,          \* int steps of the trace block
    i,              \* loop counter of the sub-step loop
    prev,           \* sf::Vector2f prev of the trace block
    firstPoint,     \* the trace block took its "first point in a run" branch
    pc,             \* position in main()
    nEvents         \* number of events pollEvent has delivered

vars == <<R, chain, tracing, showMechanism, helpVisible, sel, windowOpen, pngN,
          t, dt, centers, penLocal, discPos, haveLast, lastPen, lastT, pathLen,
          surface, currPen, steps, i, prev, firstPoint, pc, nEvents>>

----------------------------------------------------------------------------
(* Bounds of the model *)

\* number of stages built at start-up (the program builds 10)
count == 3
\* events delivered over a run
MaxEvents == 2
\* frames advance the clock only while t < MaxT
MaxT == 24
\* frame times (ms): a frame at the 120 fps limit, and a stalled frame
DtSmall == 8
DtBig == 1500
\* a stalled frame is explored in runs of at most this many events
MaxStallEvents == 1
\* SpecPen: longest chain handed to the kinematics function
MaxStages == 2

DtSet == {DtSmall, DtBig}

----------------------------------------------------------------------------
(* Program constants *)

kW == 12800
kH == 9000
R0 == 2000
RStep == 50
RMin == 200
radiusDiv == 3
baseSpeed == -40
SpeedStep == 1
maxPixelStep == 10
MinPixelStep == 1
maxSubsteps == 256
pixelsPerCycle == 6000
hueOffset == 0
stroke == 20
SegEps == 1
DefaultPhase == -1571

\* fixed point: 1.0 of sin/cos, 1.0 rad/s of speed, pi and pi/2 in milliradians
TrigOne == 1000
SpeedOne == 10
Pi == 3142
HalfPi == 1571

screenCenter == <<kW \div 2, kH \div 2>>

----------------------------------------------------------------------------
(* Arithmetic *)

Max(a, b) == IF a >= b THEN a ELSE b

Add(p, q) == <<p[1] + q[1], p[2] + q[2]>>

\* x * y / TrigOne, rounded to nearest
Scaled(x, y) == (x * y + TrigOne \div 2) \div TrigOne

RECURSIVE ISqrtIn(_, _, _)
ISqrtIn(n, lo, hi) ==
    IF lo >= hi THEN lo
    ELSE LET mid == (lo + hi + 1) \div 2
         IN  IF mid * mid <= n THEN ISqrtIn(n, mid, hi) ELSE ISqrtIn(n, lo, mid - 1)

ISqrt(n) == ISqrtIn(n, 0, 46340)

\* std::hypot
Hypot(dx, dy) == ISqrt(dx * dx + dy * dy)

Dist(p, q) == Hypot(p[1] - q[1], p[2] - q[2])

\* sin on [0, pi]
SinArc(x) ==
    LET p == x * (Pi - x)
    IN  (16 * p * 10) \div ((5 * Pi * Pi - 4 * p) \div 100)

\* std::sin
Sin(a) ==
    LET x == a % (2 * Pi)
    IN  IF x <= Pi THEN SinArc(x) ELSE -SinArc(x - Pi)

\* std::cos
Cos(a) == Sin(a + HalfPi)

\* std::ceil(a / b) for a >= 0, b > 0
CeilDiv(a, b) == (a + b - 1) \div b

\* std::clamp
Clamp(v, lo, hi) == IF v < lo THEN lo ELSE IF v > hi THEN hi ELSE v

\* C++ operator % (the sign follows the dividend)
CRem(a, n) == IF a >= 0 THEN a % n ELSE -((-a) % n)

RECURSIVE Pow(_, _)
Pow(b, e) == IF e = 0 THEN 1 ELSE b * Pow(b, e - 1)

----------------------------------------------------------------------------
(* Model: struct Stage and the kinematics function *)

\* Stage::Stage, with the default phase
Stage(lvl, rr, dd, out, spd) ==
    [level |-> lvl, r |-> rr, d |-> dd, outside |-> out, speed |-> spd,
     phase |-> DefaultPhase]

\* float alpha = s.speed * t + s.phase
DrivingAngle(s, time) == (s.speed * time) \div SpeedOne + s.phase

\* variant: the inside roll computed as an outside roll
KappaAlwaysOutside(s, baseRadius) == baseRadius + s.r

\* float kappa = s.outside ? (baseRadius + s.r) : (baseRadius - s.r)
Kappa(s, baseRadius) == IF s.outside THEN baseRadius + s.r ELSE baseRadius - s.r

\* float freq = kappa / s.r;  float beta = freq * alpha
SpinAngle(s, kappa, alpha) == (kappa * alpha) \div s.r

\* the pen offset (ox, oy) of the last stage
PenOffset(s, beta) ==
    IF s.outside
    THEN <<-Scaled(s.d, Cos(beta)), -Scaled(s.d, Sin(beta))>>
    ELSE <<Scaled(s.d, Cos(beta)), -Scaled(s.d, Sin(beta))>>

\* variant: the output list is not cleared
KeepCenters(old) == old

\* if (outCenters) outCenters->clear()
ClearCenters(old) == <<>>

\* The for loop over the stages, from stage j on (1-based). cs is the content
\* of *outCenters; wantCenters is outCenters != nullptr.
RECURSIVE PenLoop(_, _, _, _, _, _, _)
PenLoop(stages, time, j, acc, baseRadius, cs, wantCenters) ==
    IF j > Len(stages) THEN [pen |-> acc, centers |-> cs]
    ELSE
        LET s     == stages[j]
            alpha == DrivingAngle(s, time)
            kappa == Kappa(s, baseRadius)
            acc1  == Add(acc, <<Scaled(kappa, Cos(alpha)), Scaled(kappa, Sin(alpha))>>)
            cs1   == IF wantCenters THEN Append(cs, acc1) ELSE cs
            last  == (j = Len(stages))
        IN  IF last
            THEN PenLoop(stages, time, j + 1,
                         Add(acc1, PenOffset(s, SpinAngle(s, kappa, alpha))),
                         baseRadius, cs1, wantCenters)
            ELSE PenLoop(stages, time, j + 1, acc1, s.r, cs1, wantCenters)

\* nestedPenAndCenters_perStageSpeed(R, stages, t, outCenters) with a non-null
\* outCenters whose content before the call is old
nestedPenAndCenters_perStageSpeed(Rb, stages, time, old) ==
    PenLoop(stages, time, 1, <<0, 0>>, Rb, ClearCenters(old), TRUE)

\* penAtTime: the same with outCenters = nullptr
penAtTime(Rb, stages, time) ==
    PenLoop(stages, time, 1, <<0, 0>>, Rb, <<>>, FALSE).pen

----------------------------------------------------------------------------
(* main(): construction *)

\* the stage-building loop: stage k (1-based) has radius R / radiusDiv^k and
\* speed pow(baseSpeed, k - 1); the last stage gets d = r * 0.75
RECURSIVE BuildChain(_, _, _)
BuildChain(k, radius, acc) ==
    IF k > count THEN acc
    ELSE LET rr == radius \div radiusDiv
             sp == SpeedOne * Pow(baseSpeed \div SpeedOne, k - 1)
         IN  BuildChain(k + 1, rr, Append(acc, Stage(k, rr, 0, TRUE, sp)))

InitChain ==
    LET c == BuildChain(1, R0, <<>>)
    IN  IF c = <<>> THEN c
        ELSE [c EXCEPT ![Len(c)].d = (c[Len(c)].r * 3) \div 4]

----------------------------------------------------------------------------
(* main(): state after construction *)

NoPoint == <<0, 0>>

\* the locals of one loop iteration, before the iteration sets them
FrameLocalsReset ==
    /\ dt' = 0
    /\ centers' = <<>>
    /\ penLocal' = NoPoint
    /\ currPen' = NoPoint
    /\ steps' = 0
    /\ i' = 0
    /\ prev' = NoPoint
    /\ firstPoint' = FALSE

Init ==
    /\ R = R0
    /\ chain = InitChain
    /\ tracing = TRUE
    /\ showMechanism = TRUE
    /\ helpVisible = FALSE
    /\ sel = 0
    /\ windowOpen = TRUE
    /\ pngN = 0
    /\ t = 0
    /\ dt = 0
    /\ centers = <<>>
    /\ penLocal = NoPoint
    /\ discPos = [k \in 1..count |-> NoPoint]
    /\ haveLast = FALSE
    /\ lastPen = NoPoint
    /\ lastT = 0
    /\ pathLen = 0
    /\ surface = {}
    /\ currPen = NoPoint
    /\ steps = 0
    /\ i = 0
    /\ prev = NoPoint
    /\ firstPoint = FALSE
    /\ pc = "poll"
    /\ nEvents = 0

----------------------------------------------------------------------------
(* main(): events *)

appVars == <<tracing, showMechanism, helpVisible, sel, windowOpen, pngN>>
tracerVars == <<haveLast, lastPen, lastT, pathLen, surface>>
frameVars == <<t, dt, centers, penLocal, discPos, currPen, steps, i, prev, firstPoint>>

\* pollEvent() delivers one more event
Polled ==
    /\ pc = "poll"
    /\ windowOpen
    /\ nEvents < MaxEvents
    /\ nEvents' = nEvents + 1
    /\ pc' = "poll"

\* variant: without the fix-up of a negative remainder
wrapIndexNoFix(k) ==
    LET n == Len(chain)
    IN  IF n = 0 THEN 0 ELSE CRem(k, n)

\* auto wrapIndex = [&](int i) { ... }
wrapIndex(k) ==
    LET n == Len(chain)
    IN  IF n = 0 THEN 0
        ELSE LET m == CRem(k, n)
             IN  IF m < 0 THEN m + n ELSE m

\* the chain with stage sel (0-based) changed by f
EditSel(f(_)) == [chain EXCEPT ![sel + 1] = f(chain[sel + 1])]

\* ev->is<sf::Event::Closed>()
EvClosed ==
    /\ Polled
    /\ windowOpen' = FALSE
    /\ UNCHANGED <<R, chain, tracing, showMechanism, helpVisible, sel, pngN>>
    /\ UNCHANGED <<tracerVars, frameVars>>

KeyEscape ==
    /\ Polled
    /\ windowOpen' = FALSE
    /\ UNCHANGED <<R, chain, tracing, showMechanism, helpVisible, sel, pngN>>
    /\ UNCHANGED <<tracerVars, frameVars>>

KeySpace ==
    /\ Polled
    /\ tracing' = ~tracing
    /\ UNCHANGED <<R, chain, showMechanism, helpVisible, sel, windowOpen, pngN>>
    /\ UNCHANGED <<tracerVars, frameVars>>

KeyM ==
    /\ Polled
    /\ showMechanism' = ~showMechanism
    /\ UNCHANGED <<R, chain, tracing, helpVisible, sel, windowOpen, pngN>>
    /\ UNCHANGED <<tracerVars, frameVars>>

KeyC ==
    /\ Polled
    /\ surface' = {}
    /\ haveLast' = FALSE
    /\ pathLen' = 0
    /\ UNCHANGED <<R, chain, appVars, lastPen, lastT, frameVars>>

KeyPageUp ==
    /\ Polled
    /\ sel' = wrapIndex(sel + 1)
    /\ UNCHANGED <<R, chain, tracing, showMechanism, helpVisible, windowOpen, pngN>>
    /\ UNCHANGED <<tracerVars, frameVars>>

KeyPageDown ==
    /\ Polled
    /\ sel' = wrapIndex(sel - 1)
    /\ UNCHANGED <<R, chain, tracing, showMechanism, helpVisible, windowOpen, pngN>>
    /\ UNCHANGED <<tracerVars, frameVars>>

KeyE ==
    /\ Polled
    /\ LET flip(s) == [s EXCEPT !.outside = ~s.outside]
       IN  chain' = EditSel(flip)
    /\ UNCHANGED <<R, appVars, tracerVars, frameVars>>

\* variant: saving the PNG also clears the surface
KeyPClears ==
    /\ Polled
    /\ pngN' = pngN + 1
    /\ surface' = {}
    /\ UNCHANGED <<R, chain, tracing, showMechanism, helpVisible, sel, windowOpen>>
    /\ UNCHANGED <<haveLast, lastPen, lastT, pathLen, frameVars>>

\* copies the surface to an image and saves it under the name numbered n++
KeyP ==
    /\ Polled
    /\ pngN' = pngN + 1
    /\ UNCHANGED <<R, chain, tracing, showMechanism, helpVisible, sel, windowOpen>>
    /\ UNCHANGED <<tracerVars, frameVars>>

\* case KS::H: case KS::F1:
KeyHelp ==
    /\ Polled
    /\ helpVisible' = ~helpVisible
    /\ UNCHANGED <<R, chain, tracing, showMechanism, sel, windowOpen, pngN>>
    /\ UNCHANGED <<tracerVars, frameVars>>

KeyUp ==
    /\ Polled
    /\ R' = R + RStep
    /\ UNCHANGED <<chain, appVars, tracerVars, frameVars>>

KeyDown ==
    /\ Polled
    /\ R' = Max(RMin, R - RStep)
    /\ UNCHANGED <<chain, appVars, tracerVars, frameVars>>

KeyLBracket ==
    /\ Polled
    /\ LET slower(s) == [s EXCEPT !.speed = s.speed - SpeedStep]
       IN  chain' = EditSel(slower)
    /\ UNCHANGED <<R, appVars, tracerVars, frameVars>>

KeyRBracket ==
    /\ Polled
    /\ LET faster(s) == [s EXCEPT !.speed = s.speed + SpeedStep]
       IN  chain' = EditSel(faster)
    /\ UNCHANGED <<R, appVars, tracerVars, frameVars>>

KeyZ ==
    /\ Polled
    /\ LET reverse(s) == [s EXCEPT !.speed = -s.speed]
       IN  chain' = EditSel(reverse)
    /\ UNCHANGED <<R, appVars, tracerVars, frameVars>>

\* default: break (any other key), and events that are not key presses
KeyOther ==
    /\ Polled
    /\ UNCHANGED <<R, chain, appVars, tracerVars, frameVars>>

\* pollEvent() returns no event: the event loop ends
EndPoll ==
    /\ pc = "poll"
    /\ pc' = "update"
    /\ UNCHANGED <<R, chain, appVars, tracerVars, frameVars, nEvents>>

----------------------------------------------------------------------------
(* main(): update *)

\* dt = clock.restart(); if (!help.visible) t += dt; centers and pen
Update ==
    /\ pc = "update"
    /\ helpVisible \/ t < MaxT
    /\ \E d \in DtSet :
        /\ d = DtBig => nEvents <= MaxStallEvents
        /\ dt' = d
        /\ t' = IF ~helpVisible THEN t + d ELSE t
    /\ LET res == nestedPenAndCenters_perStageSpeed(R, chain, t', <<>>)
       IN  /\ centers' = res.centers
           /\ penLocal' = res.pen
    /\ pc' = "trace"
    /\ UNCHANGED <<R, chain, appVars, tracerVars, discPos, currPen, steps, i, prev,
                   firstPoint, nEvents>>

----------------------------------------------------------------------------
(* main(): trace (adaptive sub-sampling) *)

\* variant: the run starts from the stale lastPen
RunStartPenStale(cur, last) == last

\* first point in a run: lastPen = currPen
RunStartPen(cur, last) == cur

\* variant: the run starts at the previous frame's time
RunStartTimePrev(now, frameDt) == now - frameDt

\* first point in a run: lastT = t
RunStartTime(now, frameDt) == now

\* variant: the quotient is truncated instead of rounded up
StepsFloor(dist) ==
    Clamp(dist \div Max(MinPixelStep, maxPixelStep), 1, maxSubsteps)

\* steps = clamp((int) ceil(dist / max(0.1f, maxPixelStep)), 1, maxSubsteps)
StepsFor(dist) ==
    Clamp(CeilDiv(dist, Max(MinPixelStep, maxPixelStep)), 1, maxSubsteps)

\* variant: the sub-step times start at lastT and stop one step short of t
SubTimeShort(t0, t1, k, n) == t0 + ((t1 - t0) * (k - 1)) \div n

\* s = i / steps;  ti = lastT + (t - lastT) * s
SubTime(t0, t1, k, n) == t0 + ((t1 - t0) * k) \div n

\* variant: the length is assigned, not accumulated
ArcAssign(len, a, b) == Dist(b, a)

\* pathLen += hypot(p - prev)
ArcAfter(len, a, b) == len + Dist(b, a)

\* fmod((len / pixelsPerCycle) * 360 + hueOffset, 360); the colour hsv(h, 1, 1)
\* is kept as its hue
Hue(len) == ((len * 360) \div pixelsPerCycle + hueOffset) % 360

\* drawThickSegment: the target after the call
drawThickSegment(target, a, b, width, ca, cb) ==
    LET len == Hypot(b[1] - a[1], b[2] - a[2])
    IN  IF len < SegEps THEN target
        ELSE target \cup {[a |-> a, b |-> b, stroke |-> width, ca |-> ca, cb |-> cb]}

\* if (tracing && !help.visible): up to the start of the sub-step loop
TraceBegin ==
    /\ pc = "trace"
    /\ tracing /\ ~helpVisible
    /\ LET cur   == Add(screenCenter, penAtTime(R, chain, t))
           last1 == IF ~haveLast THEN RunStartPen(cur, lastPen) ELSE lastPen
           dist  == Dist(cur, last1)
       IN  /\ currPen' = cur
           /\ firstPoint' = ~haveLast
           /\ haveLast' = TRUE
           /\ lastPen' = last1
           /\ lastT' = IF ~haveLast THEN RunStartTime(t, dt) ELSE lastT
           /\ steps' = StepsFor(dist)
           /\ prev' = last1
           /\ i' = 1
    /\ pc' = "substep"
    /\ UNCHANGED <<R, chain, appVars, t, dt, centers, penLocal, discPos, pathLen,
                   surface, nEvents>>

\* one iteration of for (int i = 1; i <= steps; ++i)
SubStep ==
    /\ pc = "substep"
    /\ i <= steps
    /\ LET ti      == SubTime(lastT, t, i, steps)
           p       == Add(screenCenter, penAtTime(R, chain, ti))
           prevLen == pathLen
           newLen  == ArcAfter(pathLen, prev, p)
       IN  /\ pathLen' = newLen
           /\ surface' = drawThickSegment(surface, prev, p, stroke,
                                          Hue(prevLen), Hue(newLen))
           /\ prev' = p
    /\ i' = i + 1
    /\ UNCHANGED <<R, chain, appVars, t, dt, centers, penLocal, discPos, haveLast,
                   lastPen, lastT, currPen, steps, firstPoint, pc, nEvents>>

\* finalize for next frame
TraceEnd ==
    /\ pc = "substep"
    /\ i > steps
    /\ lastPen' = currPen
    /\ lastT' = t
    /\ pc' = "draw"
    /\ UNCHANGED <<R, chain, appVars, frameVars, haveLast, pathLen, surface, nEvents>>

\* else { haveLast = false; }
TraceOff ==
    /\ pc = "trace"
    /\ ~(tracing /\ ~helpVisible)
    /\ haveLast' = FALSE
    /\ pc' = "draw"
    /\ UNCHANGED <<R, chain, appVars, frameVars, lastPen, lastT, pathLen, surface,
                   nEvents>>

----------------------------------------------------------------------------
(* main(): disc positions, draw, and the loop condition *)

Draw ==
    /\ pc = "draw"
    /\ discPos' = [k \in 1..Len(chain) |-> Add(screenCenter, centers[k])]
    /\ FrameLocalsReset
    /\ pc' = IF windowOpen THEN "poll" ELSE "done"
    /\ UNCHANGED <<R, chain, appVars, tracerVars, t, nEvents>>

----------------------------------------------------------------------------

Next ==
    \/ EvClosed \/ KeyEscape \/ KeySpace \/ KeyM \/ KeyC
    \/ KeyPageUp \/ KeyPageDown \/ KeyE \/ KeyP \/ KeyHelp
    \/ KeyUp \/ KeyDown \/ KeyLBracket \/ KeyRBracket \/ KeyZ \/ KeyOther
    \/ EndPoll \/ Update \/ TraceBegin \/ SubStep \/ TraceEnd \/ TraceOff \/ Draw

Spec == Init /\ [][Next]_vars

----------------------------------------------------------------------------
(* The kinematics function on its own: one call on inputs drawn from small  *)
(* sets, into an output list that may already hold something.               *)

PenRadii == {600, 1000}
PenTimes == {0, 700, 1500}
PenStages ==
    {[r |-> rr, d |-> dd, outside |-> out, speed |-> sp[1], phase |-> sp[2]] :
        rr \in {200, 300}, dd \in {0, 150}, out \in BOOLEAN,
        sp \in {<<SpeedOne, 0>>, <<SpeedOne, DefaultPhase>>, <<baseSpeed, DefaultPhase>>}}
PenOldCenters == {<<>>, <<<<7, 7>>, <<9, 9>>>>}

InitPen ==
    /\ R \in PenRadii
    /\ \E n \in 1..MaxStages : \E f \in [1..n -> PenStages] :
          chain = [k \in 1..n |->
                     [level |-> k, r |-> f[k].r, d |-> f[k].d, outside |-> f[k].outside,
                      speed |-> f[k].speed, phase |-> f[k].phase]]
    /\ t \in PenTimes
    /\ centers \in PenOldCenters
    /\ tracing = TRUE
    /\ showMechanism = TRUE
    /\ helpVisible = FALSE
    /\ sel = 0
    /\ windowOpen = TRUE
    /\ pngN = 0
    /\ dt = 0
    /\ penLocal = NoPoint
    /\ discPos = <<>>
    /\ haveLast = FALSE
    /\ lastPen = NoPoint
    /\ lastT = 0
    /\ pathLen = 0
    /\ surface = {}
    /\ currPen = NoPoint
    /\ steps = 0
    /\ i = 0
    /\ prev = NoPoint
    /\ firstPoint = FALSE
    /\ pc = "pen"
    /\ nEvents = 0

\* penLocal = nestedPenAndCenters_perStageSpeed(R, chain, t, &centers)
PenCall ==
    /\ pc = "pen"
    /\ LET res == nestedPenAndCenters_perStageSpeed(R, chain, t, centers)
       IN  /\ centers' = res.centers
           /\ penLocal' = res.pen
    /\ pc' = "penDone"
    /\ UNCHANGED <<R, chain, appVars, tracerVars, t, dt, discPos, currPen, steps, i,
                   prev, firstPoint, nEvents>>

NextPen == PenCall

SpecPen == InitPen /\ [][NextPen]_vars

----------------------------------------------------------------------------
(* Properties *)

\* the sub-step loop is running in a frame that started a run
InFirstFrame == pc = "substep" /\ firstPoint

\* the frame at pc = "draw" went through the trace block
TracedFrame == pc = "draw" /\ tracing /\ ~helpVisible

\* C1: once tracing has been toggled off and a frame has run, the tracer run
\* state is reset: haveLast is false and pathLen is 0 (so that the first
\* segment after resuming starts from arc length 0).
C1_ResetOnPause == (pc = "draw" /\ ~tracing) => (~haveLast /\ pathLen = 0)

\* C2: in the first tracing frame of a run no sub-step has non-zero length
\* and nothing is added to the surface.
C2_NoBridgingSegment ==
    [][InFirstFrame => (Dist(prev', prev) = 0 /\ surface' = surface)]_vars

\* a run restarts at a later time than the one it stopped at, with something
\* already drawn
C2_Witness == InFirstFrame /\ i > steps /\ t > DtSmall /\ pathLen > 0

\* C3: each sub-step adds to pathLen exactly the distance between its point
\* and the previous sub-step's point, and pathLen never decreases while a run
\* stays active.
C3_ArcLength ==
    [][/\ (pc = "substep" /\ i <= steps) => pathLen' = pathLen + Dist(prev', prev)
       /\ (haveLast /\ haveLast') => pathLen' >= pathLen]_vars

C3_Witness == pc = "substep" /\ ~firstPoint /\ i > 2 /\ pathLen > 0 /\ prev # lastPen

\* C4: steps is the distance between currPen and lastPen divided by
\* maxPixelStep, rounded up, and clamped to [1, maxSubsteps] (so a larger
\* distance never gives fewer steps); the loop ends after exactly steps
\* sub-steps.
C4_StepCount ==
    /\ [](pc = "substep" =>
            LET d == Dist(currPen, lastPen)
            IN  /\ steps \in 1..maxSubsteps
                /\ steps < maxSubsteps => d <= steps * maxPixelStep
                /\ steps > 1 => d > (steps - 1) * maxPixelStep
                /\ i \in 1..(steps + 1))
    /\ [][(pc = "substep" /\ pc' # "substep") => i = steps + 1]_vars

\* the clamp acts: the distance asks for more than maxSubsteps sub-steps
C4_Witness ==
    /\ pc = "substep"
    /\ steps = maxSubsteps
    /\ Dist(currPen, lastPen) > maxSubsteps * maxPixelStep
    /\ i = steps + 1

\* the centre of stage j: the sum of the centre-path vectors of stages 1..j
RECURSIVE CenterOf(_)
CenterOf(j) ==
    IF j = 0 THEN <<0, 0>>
    ELSE LET s     == chain[j]
             base  == IF j = 1 THEN R ELSE chain[j - 1].r
             kappa == IF s.outside THEN base + s.r ELSE base - s.r
             alpha == (s.speed * t) \div SpeedOne + s.phase
         IN  Add(CenterOf(j - 1), <<Scaled(kappa, Cos(alpha)), Scaled(kappa, Sin(alpha))>>)

\* C5: after the call the centers list holds exactly one centre per stage, in
\* chain order, whatever it held before; so it does wherever the frame loop
\* reads it.
C5_OneCenterPerStage ==
    pc \in {"penDone", "trace", "substep", "draw"} =>
        /\ Len(centers) = Len(chain)
        /\ \A j \in 1..Len(chain) : centers[j] = CenterOf(j)

C5_Witness == pc = "penDone" /\ Len(chain) > 1 /\ Len(centers) > 1 /\ centers[1] # centers[2]

\* the hypotrochoid of base radius RR, disc radius rr and pen offset dd at
\* angle theta
Hypotrochoid(RR, rr, dd, theta) ==
    LET spin == ((RR - rr) * theta) \div rr
    IN  <<Scaled(RR - rr, Cos(theta)) + Scaled(dd, Cos(spin)),
          Scaled(RR - rr, Sin(theta)) - Scaled(dd, Sin(spin))>>

SingleInside ==
    /\ pc = "penDone"
    /\ Len(chain) = 1
    /\ ~chain[1].outside
    /\ R > chain[1].r /\ chain[1].r > 0 /\ chain[1].d >= 0

\* C6 as stated: for one inside stage the pen is the hypotrochoid at angle t.
C6_HypotrochoidAtT ==
    SingleInside => penLocal = Hypotrochoid(R, chain[1].r, chain[1].d, t)

\* C6: for one inside stage the pen is the hypotrochoid at the driving angle
\* speed * t + phase.
C6_HypotrochoidAtDrivingAngle ==
    SingleInside =>
        penLocal = Hypotrochoid(R, chain[1].r, chain[1].d,
                                (chain[1].speed * t) \div SpeedOne + chain[1].phase)

C6_Witness ==
    /\ SingleInside
    /\ chain[1].d > 0 /\ t > 0 /\ chain[1].phase # 0 /\ chain[1].speed # SpeedOne
    /\ penLocal # Hypotrochoid(R, chain[1].r, chain[1].d, t)

\* C7: the surface changes only by a sub-step of a tracing frame adding to it
\* or by the clear emptying it (with the run reset); a frame with tracing
\* disabled ends with haveLast false.
C7_SurfaceFrame ==
    /\ [][surface' # surface =>
            \/ pc = "substep" /\ tracing /\ ~helpVisible /\ surface \subseteq surface'
            \/ pc = "poll" /\ surface' = {} /\ ~haveLast' /\ pathLen' = 0]_vars
    /\ []((pc = "draw" /\ ~tracing) => ~haveLast)

\* a frame with tracing disabled has run over a surface that holds segments
C7_Witness == pc = "draw" /\ ~tracing /\ ~haveLast /\ surface # {}

\* C8: a tracing frame ends with lastT = t and lastPen = the pen at t; its
\* sub-steps start at lastPen, each emitted segment runs from the previous
\* point to the next, and the last point is currPen.
C8_CommitAndContinuity ==
    /\ [](TracedFrame =>
            /\ haveLast
            /\ lastT = t
            /\ lastPen = Add(screenCenter, penAtTime(R, chain, t)))
    /\ []((pc = "substep" /\ i = 1) => prev = lastPen)
    /\ []((pc = "substep" /\ i = steps + 1) => prev = currPen)
    /\ [][pc = "substep" =>
            \A sg \in surface' \ surface : sg.a = prev /\ sg.b = prev']_vars

C8_Witness ==
    /\ pc = "substep" /\ ~firstPoint /\ i = steps + 1 /\ steps > 1
    /\ prev = currPen /\ currPen # lastPen /\ Cardinality(surface) > steps

\* C9 as stated: a run starts with lastPen = currPen and lastT = the previous
\* frame's time.
C9_StartAtPreviousTime ==
    InFirstFrame => (lastPen = currPen /\ lastT = t - dt)

\* C9: a run starts with lastPen = currPen and lastT = t, the current time,
\* and the frame draws nothing.
C9_RunStart ==
    /\ [](InFirstFrame =>
            /\ haveLast
            /\ lastPen = currPen
            /\ currPen = Add(screenCenter, penAtTime(R, chain, t))
            /\ lastT = t)
    /\ [][InFirstFrame => surface' = surface]_vars

C9_Witness == InFirstFrame /\ i = 1 /\ dt > 0 /\ lastT = t /\ t - dt > 0

\* C10: sel is a valid index of the chain, PageUp and PageDown move it by one
\* with wrap-around, and the chain keeps its length and order.
C10_SelInRange ==
    /\ [](/\ sel \in 0..(Len(chain) - 1)
          /\ Len(chain) = count
          /\ \A k \in 1..count : chain[k].level = k /\ chain[k].r = InitChain[k].r)
    /\ [][sel' # sel =>
            \/ sel' = (sel + 1) % Len(chain)
            \/ sel' = (sel + Len(chain) - 1) % Len(chain)]_vars

\* PageDown from stage 0 has wrapped to the last stage
C10_Witness == nEvents = 1 /\ sel = count - 1

====
